---------------------------- MODULE Spec2Model ----------------------------
(***************************************************************************)
(* The hierarchical configuration store of main.go: a tree of Nodes held   *)
(* by ConfigServer.Root, resolved by FindNode and mutated by the HTTP      *)
(* handlers Create, Read, Update and Delete.  net/http runs every request  *)
(* in its own goroutine and the handlers take no lock, so the handlers are *)
(* modelled one shared-memory access at a time.                            *)
(*                                                                         *)
(* A path is a sequence of tokens: the separator "/" or a whole node name. *)
(* Two names are never adjacent (they would spell one longer name).        *)
(***************************************************************************)
EXTENDS Integers, Sequences, FiniteSets, TLC

(* ------------------------------ bounds -------------------------------- *)

\* Longest request path, in tokens.
MaxPathLen == 3

\* Cells of the heap: nodes alive at once (reachable or held by a handler).
MaxNodes == 6

\* Requests accepted in one run of the concurrent specification.
MaxRequests == 2

\* Requests accepted in one run of the sequential specification.
MaxSerial == 3

(* ------------------------------ strings ------------------------------- *)

Sep == "/"

\* The names requests address nodes by.
Names == {"child1", "child2", "test1child2"}

Tokens == Names \cup {Sep}

RECURSIVE SeqsUpTo(_)
SeqsUpTo(n) ==
    IF n = 0 THEN {<<>>}
    ELSE LET shorter == SeqsUpTo(n - 1)
         IN  shorter \cup {Append(s, t) : s \in {q \in shorter : Len(q) = n - 1}, t \in Tokens}

WellFormed(p) == \A i \in 1..(Len(p) - 1) : p[i] = Sep \/ p[i + 1] = Sep

\* r.URL.Path[1:] of the requests the model sends.
Paths == {p \in SeqsUpTo(MaxPathLen) : WellFormed(p)}

\* strings.Split(config, "/"): the segments between separators, the empty
\* ones ("") included; a config without separator is one segment.
RECURSIVE StringsSplit(_)
StringsSplit(config) ==
    IF \A i \in 1..Len(config) : config[i] # Sep
    THEN IF Len(config) = 0 THEN <<"">> ELSE <<config[1]>>
    ELSE LET i == CHOOSE k \in 1..Len(config) :
                     config[k] = Sep /\ \A j \in 1..(k - 1) : config[j] # Sep
         IN  <<(IF i = 1 THEN "" ELSE config[1])>>
                 \o StringsSplit(SubSeq(config, i + 1, Len(config)))

\* The index of the last separator of config, 0 when it has none.
LastSep(config) ==
    IF \E k \in 1..Len(config) : config[k] = Sep
    THEN CHOOSE k \in 1..Len(config) :
             config[k] = Sep /\ \A j \in (k + 1)..Len(config) : config[j] # Sep
    ELSE 0

\* path.Split(config): dir is everything up to and including the final
\* separator, file is what follows it ("" when config ends in a separator).
PathSplit(config) ==
    LET i == LastSep(config)
    IN  [dir  |-> SubSeq(config, 1, i),
         file |-> IF i = Len(config) THEN "" ELSE config[Len(config)]]


(* --------------------------- values and JSON -------------------------- *)

\* The JSON null: an omitted or null field, an encoded nil pointer or nil map.
JsonNull == [null |-> TRUE]

\* A request body the decoder rejects (decoder.Decode returns an error).
Malformed == [malformed |-> TRUE]

\* Node.Value is an interface{}: what json decodes a JSON text into (a
\* number becomes a float64, whatever its spelling) or what main() stored.
DecodeValue(text) ==
    CASE text = "12345"                  -> [float64 |-> 12345]
      [] text = "1.2345e4"               -> [float64 |-> 12345]
      [] text = "\"new\""                -> [string |-> "new"]
      [] text = "[\"test\",\"testing\"]" -> [slice |-> <<"test", "testing">>]
      [] OTHER                           -> [nil |-> TRUE]

\* The JSON text json encodes a Node.Value as.
EncodeValue(v) ==
    CASE v = [float64 |-> 12345]                    -> "12345"
      [] v = [int |-> 1234567890]                   -> "1234567890"
      [] v = [string |-> "new"]                     -> "\"new\""
      [] v = [string |-> "root val"]                -> "\"root val\""
      [] v = [string |-> "I'm a child"]             -> "\"I'm a child\""
      [] v = [slice |-> <<"test", "testing">>]      -> "[\"test\",\"testing\"]"
      [] OTHER                                      -> "null"

\* json.Marshal(test_child) of main_test.go: the nested node has no Children.
TestChild ==
    [Value    |-> "12345",
     Children |-> [n \in {"test1child2"} |->
                      [Value |-> "[\"test\",\"testing\"]", Children |-> JsonNull]]]

\* A body without a Children field.
BareLeaf == [Value |-> "\"new\"", Children |-> JsonNull]

\* A body whose Children object maps a name to null.
SparseNode == [Value |-> "1.2345e4", Children |-> [n \in {"child1"} |-> JsonNull]]

\* The request bodies the model sends.
Payloads == {TestChild, BareLeaf, SparseNode, Malformed}

(* -------------------------------- heap -------------------------------- *)

\* The nil pointer; the cells of the heap are 1..MaxNodes.
Nil == 0

NodeIds == 1..MaxNodes

\* The nil map (a Node whose Children was never made).
NilMap == [nilmap |-> TRUE]

\* Every key a Children map of the model can hold, in the order json sorts
\* the keys of a map when encoding it.
KeyOrder == <<"", "child1", "child2", "test1child2">>

FirstKey(keys) ==
    KeyOrder[CHOOSE i \in 1..Len(KeyOrder) :
                 KeyOrder[i] \in keys /\ \A j \in 1..(i - 1) : KeyOrder[j] \notin keys]

\* m[name] of a Go map: the zero value (nil) for a missing key or a nil map.
MapIndex(m, name) ==
    IF m # NilMap /\ name \in DOMAIN m THEN m[name] ELSE Nil

\* An assignment that makes a new map of the one entry (m = map[string]*Node
\* {name: v}): the other entries are gone.
MapAssignAlone(m, name, v) == [k \in {name} |-> v]

\* m[name] = v of a non-nil Go map.
MapAssign(m, name, v) == [k \in DOMAIN m \cup {name} |-> IF k = name THEN v ELSE m[k]]

\* A delete that drops every entry of the map (clear(m)).
MapDeleteAll(m, name) ==
    IF m = NilMap THEN m ELSE <<>>

\* delete(m, name): a no-op on a nil map or a missing key.
MapDelete(m, name) ==
    IF m = NilMap THEN m ELSE [k \in DOMAIN m \ {name} |-> m[k]]

\* new(Node): the lowest free cell.
NewNode(hp) == CHOOSE id \in NodeIds : id \notin DOMAIN hp /\ \A j \in 1..(id - 1) : j \in DOMAIN hp

RECURSIVE DocSize(_)
\* The Nodes decoding a body allocates (new(Node) included, even on an error).
DocSize(doc) ==
    IF doc = Malformed \/ doc.Children = JsonNull THEN 1
    ELSE LET kids == doc.Children
             RECURSIVE Sum(_)
             Sum(ks) == IF ks = {} THEN 0
                        ELSE LET k == CHOOSE x \in ks : TRUE
                             IN  (IF kids[k] = JsonNull THEN 0 ELSE DocSize(kids[k]))
                                  + Sum(ks \ {k})
         IN  1 + Sum(DOMAIN kids)

RECURSIVE DecodeInto(_, _, _)
RECURSIVE DecodeChildren(_, _, _, _)

\* decoder.Decode(node) for a well-formed body: fills the Node at id; a
\* Children object makes the map and allocates one fresh Node per non-null
\* entry, a null entry stays a nil pointer under its key.
DecodeInto(hp, id, doc) ==
    LET filled == [k \in DOMAIN hp \cup {id} |->
                      IF k = id
                      THEN [Value    |-> DecodeValue(doc.Value),
                            Children |-> IF doc.Children = JsonNull THEN NilMap ELSE <<>>]
                      ELSE hp[k]]
    IN  IF doc.Children = JsonNull THEN filled
        ELSE DecodeChildren(filled, id, doc.Children, DOMAIN doc.Children)

DecodeChildren(hp, id, kids, keys) ==
    IF keys = {} THEN hp
    ELSE LET k    == FirstKey(keys)
             kid  == IF kids[k] = JsonNull THEN Nil ELSE NewNode(hp)
             hp1  == IF kid = Nil THEN hp ELSE DecodeInto(hp, kid, kids[k])
             hp2  == [hp1 EXCEPT ![id].Children = MapAssign(@, k, kid)]
         IN  DecodeChildren(hp2, id, kids, keys \ {k})

RECURSIVE TreeOf(_, _)
\* json's encoding of the Node pointer id, as the document it denotes.
TreeOf(hp, id) ==
    IF id = Nil THEN JsonNull
    ELSE [Value    |-> EncodeValue(hp[id].Value),
          Children |-> IF hp[id].Children = NilMap THEN JsonNull
                       ELSE [k \in DOMAIN hp[id].Children |-> TreeOf(hp, hp[id].Children[k])]]

\* The cells the Children map of a cell points to.
Kids(hp, id) ==
    IF hp[id].Children = NilMap THEN {}
    ELSE {hp[id].Children[k] : k \in DOMAIN hp[id].Children} \ {Nil}

RECURSIVE Reach(_, _)
\* The cells reachable from a set of cells.
Reach(hp, ids) ==
    LET more == ids \cup UNION {Kids(hp, id) : id \in ids}
    IN  IF more = ids THEN ids ELSE Reach(hp, more)


(* ------------------------------ FindNode ------------------------------ *)

\* FindNode without its len(name) > 0 check: no segment is passed over.
SkipEmptyNever(names) == names

\* The loop of FindNode passes over empty names (len(name) > 0): names
\* without its leading empty segments.
RECURSIVE SkipEmpty(_)
SkipEmpty(names) ==
    IF names # <<>> /\ Head(names) = "" THEN SkipEmpty(Tail(names)) ELSE names

\* The loop of FindNode returning from inside its first pass: the child
\* under the first non-empty name, whatever names follow.
DescendFirst(hp, node, names) ==
    LET rest == SkipEmpty(names)
    IN  IF rest = <<>> THEN node
        ELSE MapIndex(hp[node].Children, Head(rest))

RECURSIVE Descend(_, _, _)
\* The loop of FindNode from node over names: the Node reached, or Nil at
\* the first name the current Node has no child for.
Descend(hp, node, names) ==
    LET rest == SkipEmpty(names)
    IN  IF rest = <<>> THEN node
        ELSE LET child == MapIndex(hp[node].Children, Head(rest))
             IN  IF child = Nil THEN Nil ELSE Descend(hp, child, Tail(rest))

\* cs.FindNode(config) run without interruption: the Node, or Nil for the
\* "Config %s not found" error.
FindNode(hp, root, config) ==
    IF root = Nil THEN Nil ELSE Descend(hp, root, StringsSplit(config))

(* ------------------------------- state -------------------------------- *)

\* Goroutines serving requests at once.
NumProcs == 2

Procs == 1..NumProcs

VARIABLES
    Root,         \* cs.Root: a cell or Nil
    heap,         \* the allocated Nodes: cell -> [Value, Children]
    hashWriting,  \* the cells whose Children map is inside a write
    crashed,      \* the runtime threw a fatal error: the process is gone
    handler,      \* per goroutine: the request, its locals and its response
    accepted,     \* requests accepted so far
    backingRecord \* what the process has written to durable storage

vars == <<Root, heap, hashWriting, crashed, handler, accepted, backingRecord>>

Methods == {"PUT", "POST", "DELETE", "GET"}

http_StatusOK == 200
http_StatusBadRequest == 400
http_StatusNotFound == 404
http_StatusConflict == 409

\* No status was written: the handler panicked and net/http dropped the
\* connection.
NoStatus == 0

\* A goroutine serving nothing.
Idle ==
    [pc |-> "idle", method |-> "", config |-> <<>>, body |-> JsonNull,
     node |-> Nil, names |-> <<>>, name |-> "", cur |-> Nil, parent |-> Nil,
     stack |-> <<>>, seen |-> <<>>,
     status |-> NoStatus, reply |-> JsonNull, pre |-> JsonNull]

\* The handler has returned: its locals are gone, the response and the
\* request it answered stay on record (pre: the store as the request came).
Respond(rec, status, reply) ==
    [Idle EXCEPT !.pc = "done", !.method = rec.method, !.config = rec.config,
                 !.body = rec.body, !.pre = rec.pre,
                 !.status = status, !.reply = reply]

SeqRange(s) == {s[i] : i \in 1..Len(s)}

\* The cells some goroutine still points to.
Held(hs) ==
    UNION {{hs[p].node, hs[p].cur, hs[p].parent} \cup SeqRange(hs[p].stack)
               \cup DOMAIN hs[p].seen : p \in Procs} \ {Nil}

\* The garbage collector: only the cells reachable from cs.Root or from a
\* goroutine stay allocated.
Collect(hp, root, hs) ==
    LET live == Reach(hp, ({root} \cup Held(hs)) \ {Nil})
    IN  [id \in live |-> hp[id]]

\* Nothing was written to durable storage.
Unwritten == [unwritten |-> TRUE]

\* The fixture main() starts the server with.
MainHeap ==
    [id \in 1..4 |->
        CASE id = 1 -> [Value |-> [string |-> "root val"],
                        Children |-> [k \in {"child1"} |-> 2]]
          [] id = 2 -> [Value |-> [string |-> "I'm a child"],
                        Children |-> [k \in {"child2"} |-> 3]]
          [] id = 3 -> [Value |-> [int |-> 1234567890],
                        Children |-> [k \in {"test1child2"} |-> 4]]
          [] id = 4 -> [Value |-> [slice |-> <<"test", "testing">>],
                        Children |-> NilMap]]

Init ==
    /\ Root = 1
    /\ heap = MainHeap
    /\ hashWriting = {}
    /\ crashed = FALSE
    /\ handler = [p \in Procs |-> Idle]
    /\ accepted = 0
    /\ backingRecord = Unwritten

(* ------------------------------ handlers ------------------------------ *)

\* One step of goroutine p: its record becomes rec, the Nodes become hp and
\* cs.Root becomes root; what nothing points to any more is collected.  No
\* statement of a handler writes to a file (main.go imports no package that
\* could).
Step(p, rec, hp, root) ==
    /\ handler' = [handler EXCEPT ![p] = rec]
    /\ Root' = root
    /\ heap' = Collect(hp, root, handler')
    /\ UNCHANGED backingRecord

\* An assignment to the Children map of cell id finds another goroutine
\* inside a write of it.
Races(id) == id \in hashWriting

\* The Children map of cell id has no entry: a lookup, an iteration or a
\* delete returns at once, before the runtime looks for a writer.
Empty(id) == heap[id].Children = NilMap \/ DOMAIN heap[id].Children = {}

\* A lookup in, an iteration over or a delete from the Children map of cell
\* id finds another goroutine inside a write of it.
ReadRaces(id) == Races(id) /\ ~Empty(id)

\* Where a handler goes once FindNode has returned node without error.
Found(rec, node) ==
    CASE rec.method = "PUT"    -> [rec EXCEPT !.pc = "CreateCheck", !.parent = node, !.cur = Nil, !.names = <<>>]
      [] rec.method = "POST"   -> [rec EXCEPT !.pc = "UpdateCheck", !.parent = node, !.cur = Nil, !.names = <<>>]
      [] rec.method = "DELETE" -> [rec EXCEPT !.pc = "DeleteCheck", !.parent = node, !.cur = Nil, !.names = <<>>]
      [] OTHER                 -> [rec EXCEPT !.pc = "Encode", !.cur = node, !.stack = <<node>>, !.names = <<>>]

\* Handle and the head of the handler it picks: the request is read, a
\* Create or Update decodes its body into a fresh Node, and the handler
\* branches on the decoding error and on the root address.
Handle(p, method, config, body) ==
    LET mutates == method \in {"PUT", "POST"}
        node    == IF mutates THEN NewNode(heap) ELSE Nil
        hp      == IF ~mutates THEN heap
                   ELSE IF body = Malformed
                        THEN DecodeInto(heap, node, [Value |-> "null", Children |-> JsonNull])
                        ELSE DecodeInto(heap, node, body)
        split   == PathSplit(config)
        rec     == [Idle EXCEPT !.method = method, !.config = config, !.body = body,
                                !.node = node, !.pre = TreeOf(heap, Root)]
    IN  /\ ~crashed
        /\ handler[p].pc \in {"idle", "done"}
        /\ mutates => Cardinality(NodeIds \ DOMAIN heap) >= DocSize(body)
        /\ accepted' = accepted + 1
        /\ UNCHANGED <<hashWriting, crashed>>
        /\ IF mutates /\ body = Malformed
           THEN Step(p, Respond(rec, http_StatusBadRequest, JsonNull), hp, Root)
           ELSE IF method = "GET"
           THEN Step(p, [rec EXCEPT !.pc = "FindNode", !.names = StringsSplit(config)], hp, Root)
           ELSE IF config = <<>>
           THEN Step(p, [rec EXCEPT !.pc = CASE method = "PUT" -> "CreateRoot"
                                            [] method = "POST" -> "UpdateRoot"
                                            [] OTHER -> "DeleteRoot"], hp, Root)
           ELSE Step(p, [rec EXCEPT !.pc = "FindNode", !.names = StringsSplit(split.dir),
                                    !.name = split.file], hp, Root)

\* FindNode, node := cs.Root: an absent root is the not-found error, which
\* every handler answers with 404.
FindNodeRoot(p) ==
    LET rec == handler[p]
    IN  /\ ~crashed
        /\ rec.pc = "FindNode"
        /\ UNCHANGED <<hashWriting, crashed, accepted>>
        /\ IF Root = Nil
           THEN Step(p, Respond(rec, http_StatusNotFound, JsonNull), heap, Root)
           ELSE IF SkipEmpty(rec.names) = <<>>
           THEN Step(p, Found(rec, Root), heap, Root)
           ELSE Step(p, [rec EXCEPT !.pc = "FindNodeLoop", !.cur = Root,
                                    !.names = SkipEmpty(rec.names)], heap, Root)

\* FindNode walking with cs.Root instead of its local node
\* (cs.Root = cs.Root.Children[name]): the lookup moves the root.
FindNodeLoopMovingRoot(p) ==
    LET rec   == handler[p]
        child == MapIndex(heap[rec.cur].Children, Head(rec.names))
        rest  == SkipEmpty(Tail(rec.names))
    IN  /\ ~crashed
        /\ rec.pc = "FindNodeLoop"
        /\ ~ReadRaces(rec.cur)
        /\ UNCHANGED <<hashWriting, crashed, accepted>>
        /\ IF child = Nil
           THEN Step(p, Respond(rec, http_StatusNotFound, JsonNull), heap, Nil)
           ELSE IF rest = <<>>
           THEN Step(p, Found(rec, child), heap, child)
           ELSE Step(p, [rec EXCEPT !.cur = child, !.names = rest], heap, child)

\* FindNode, node = node.Children[name] for the next non-empty name.
FindNodeLoop(p) ==
    LET rec   == handler[p]
        child == MapIndex(heap[rec.cur].Children, Head(rec.names))
        rest  == SkipEmpty(Tail(rec.names))
    IN  /\ ~crashed
        /\ rec.pc = "FindNodeLoop"
        /\ ~ReadRaces(rec.cur)
        /\ UNCHANGED <<hashWriting, crashed, accepted>>
        /\ IF child = Nil
           THEN Step(p, Respond(rec, http_StatusNotFound, JsonNull), heap, Root)
           ELSE IF rest = <<>>
           THEN Step(p, Found(rec, child), heap, Root)
           ELSE Step(p, [rec EXCEPT !.cur = child, !.names = rest], heap, Root)


\* A map write enters: the runtime marks the map as being written.
BeginWrite(p, pc) ==
    /\ ~Races(handler[p].parent)
    /\ hashWriting' = hashWriting \cup {handler[p].parent}
    /\ Step(p, [handler[p] EXCEPT !.pc = pc], heap, Root)
    /\ UNCHANGED <<crashed, accepted>>

\* A map write leaves: the map of the parent becomes m and the mark is
\* taken off; the handler goes on as rec.
EndWrite(p, m, rec) ==
    /\ hashWriting' = hashWriting \ {handler[p].parent}
    /\ Step(p, rec, [heap EXCEPT ![handler[p].parent].Children = m], Root)
    /\ UNCHANGED <<crashed, accepted>>

\* Create at the root address: if cs.Root != nil, 409.
CreateRoot(p) ==
    LET rec == handler[p]
    IN  /\ ~crashed
        /\ rec.pc = "CreateRoot"
        /\ UNCHANGED <<hashWriting, crashed, accepted>>
        /\ IF Root # Nil
           THEN Step(p, Respond(rec, http_StatusConflict, JsonNull), heap, Root)
           ELSE Step(p, [rec EXCEPT !.pc = "CreateRootSet"], heap, Root)

\* cs.Root = node of Create.
CreateRootSet(p) ==
    LET rec == handler[p]
    IN  /\ ~crashed
        /\ rec.pc = "CreateRootSet"
        /\ UNCHANGED <<hashWriting, crashed, accepted>>
        /\ Step(p, Respond(rec, http_StatusOK, JsonNull), heap, rec.node)

\* Create: if parent.Children[name] != nil, 409.
CreateCheck(p) ==
    LET rec == handler[p]
    IN  /\ ~crashed
        /\ rec.pc = "CreateCheck"
        /\ ~ReadRaces(rec.parent)
        /\ UNCHANGED <<hashWriting, crashed, accepted>>
        /\ IF MapIndex(heap[rec.parent].Children, rec.name) # Nil
           THEN Step(p, Respond(rec, http_StatusConflict, JsonNull), heap, Root)
           ELSE Step(p, [rec EXCEPT !.pc = "CreateAttach"], heap, Root)

\* Create: parent.Children[name] = node enters; an assignment to an entry
\* of a nil map panics, and the handler writes no status.
CreateAttach(p) ==
    LET rec == handler[p]
    IN  /\ ~crashed
        /\ rec.pc = "CreateAttach"
        /\ IF heap[rec.parent].Children = NilMap
           THEN /\ Step(p, Respond(rec, NoStatus, JsonNull), heap, Root)
                /\ UNCHANGED <<hashWriting, crashed, accepted>>
           ELSE BeginWrite(p, "CreateAttachEnd")

\* Create: parent.Children[name] = node is done, then 200.
CreateAttachEnd(p) ==
    LET rec == handler[p]
    IN  /\ ~crashed
        /\ rec.pc = "CreateAttachEnd"
        /\ EndWrite(p, MapAssign(heap[rec.parent].Children, rec.name, rec.node),
                    Respond(rec, http_StatusOK, JsonNull))

\* Update at the root address: if cs.Root == nil, 404.
UpdateRoot(p) ==
    LET rec == handler[p]
    IN  /\ ~crashed
        /\ rec.pc = "UpdateRoot"
        /\ UNCHANGED <<hashWriting, crashed, accepted>>
        /\ IF Root = Nil
           THEN Step(p, Respond(rec, http_StatusNotFound, JsonNull), heap, Root)
           ELSE Step(p, [rec EXCEPT !.pc = "UpdateRootSet"], heap, Root)

\* cs.Root = node of Update.
UpdateRootSet(p) ==
    LET rec == handler[p]
    IN  /\ ~crashed
        /\ rec.pc = "UpdateRootSet"
        /\ UNCHANGED <<hashWriting, crashed, accepted>>
        /\ Step(p, Respond(rec, http_StatusOK, JsonNull), heap, rec.node)

\* Update testing the map instead of the entry (parent.Children == nil):
\* a missing entry no longer stops it.
UpdateCheckMapOnly(p) ==
    LET rec == handler[p]
    IN  /\ ~crashed
        /\ rec.pc = "UpdateCheck"
        /\ ~ReadRaces(rec.parent)
        /\ UNCHANGED <<hashWriting, crashed, accepted>>
        /\ IF heap[rec.parent].Children = NilMap
           THEN Step(p, Respond(rec, http_StatusNotFound, JsonNull), heap, Root)
           ELSE Step(p, [rec EXCEPT !.pc = "UpdateDelete"], heap, Root)

\* Update: if parent.Children[name] == nil, 404.
UpdateCheck(p) ==
    LET rec == handler[p]
    IN  /\ ~crashed
        /\ rec.pc = "UpdateCheck"
        /\ ~ReadRaces(rec.parent)
        /\ UNCHANGED <<hashWriting, crashed, accepted>>
        /\ IF MapIndex(heap[rec.parent].Children, rec.name) = Nil
           THEN Step(p, Respond(rec, http_StatusNotFound, JsonNull), heap, Root)
           ELSE Step(p, [rec EXCEPT !.pc = "UpdateDelete"], heap, Root)

\* Update: delete(parent.Children, name) enters (and is over at once on a
\* map without entries).
UpdateDelete(p) ==
    /\ ~crashed
    /\ handler[p].pc = "UpdateDelete"
    /\ IF Empty(handler[p].parent)
       THEN /\ Step(p, [handler[p] EXCEPT !.pc = "UpdateAssign"], heap, Root)
            /\ UNCHANGED <<hashWriting, crashed, accepted>>
       ELSE BeginWrite(p, "UpdateDeleteEnd")

\* Update: delete(parent.Children, name) is done.
UpdateDeleteEnd(p) ==
    LET rec == handler[p]
    IN  /\ ~crashed
        /\ rec.pc = "UpdateDeleteEnd"
        /\ EndWrite(p, MapDelete(heap[rec.parent].Children, rec.name),
                    [rec EXCEPT !.pc = "UpdateAssign"])

\* Update: parent.Children[name] = node enters.
UpdateAssign(p) ==
    /\ ~crashed
    /\ handler[p].pc = "UpdateAssign"
    /\ BeginWrite(p, "UpdateAssignEnd")

\* Update: parent.Children[name] = node is done, then 200.
UpdateAssignEnd(p) ==
    LET rec == handler[p]
    IN  /\ ~crashed
        /\ rec.pc = "UpdateAssignEnd"
        /\ EndWrite(p, MapAssign(heap[rec.parent].Children, rec.name, rec.node),
                    Respond(rec, http_StatusOK, JsonNull))

\* Delete at the root address refusing an absent root (if cs.Root == nil,
\* 404), as Update does.
DeleteRootIfPresent(p) ==
    LET rec == handler[p]
    IN  /\ ~crashed
        /\ rec.pc = "DeleteRoot"
        /\ UNCHANGED <<hashWriting, crashed, accepted>>
        /\ IF Root = Nil
           THEN Step(p, Respond(rec, http_StatusNotFound, JsonNull), heap, Root)
           ELSE Step(p, Respond(rec, http_StatusOK, JsonNull), heap, Nil)

\* Delete at the root address: cs.Root = nil, then 200.
DeleteRoot(p) ==
    LET rec == handler[p]
    IN  /\ ~crashed
        /\ rec.pc = "DeleteRoot"
        /\ UNCHANGED <<hashWriting, crashed, accepted>>
        /\ Step(p, Respond(rec, http_StatusOK, JsonNull), heap, Nil)

\* Delete: if parent.Children[name] == nil, 404.
DeleteCheck(p) ==
    LET rec == handler[p]
    IN  /\ ~crashed
        /\ rec.pc = "DeleteCheck"
        /\ ~ReadRaces(rec.parent)
        /\ UNCHANGED <<hashWriting, crashed, accepted>>
        /\ IF MapIndex(heap[rec.parent].Children, rec.name) = Nil
           THEN Step(p, Respond(rec, http_StatusNotFound, JsonNull), heap, Root)
           ELSE Step(p, [rec EXCEPT !.pc = "DeleteEntry"], heap, Root)

\* Delete: delete(parent.Children, name) enters (and is over at once, with
\* the 200, on a map without entries).
DeleteEntry(p) ==
    /\ ~crashed
    /\ handler[p].pc = "DeleteEntry"
    /\ IF Empty(handler[p].parent)
       THEN /\ Step(p, Respond(handler[p], http_StatusOK, JsonNull), heap, Root)
            /\ UNCHANGED <<hashWriting, crashed, accepted>>
       ELSE BeginWrite(p, "DeleteEntryEnd")

\* Delete: delete(parent.Children, name) is done, then 200.
DeleteEntryEnd(p) ==
    LET rec == handler[p]
    IN  /\ ~crashed
        /\ rec.pc = "DeleteEntryEnd"
        /\ EndWrite(p, MapDelete(heap[rec.parent].Children, rec.name),
                    Respond(rec, http_StatusOK, JsonNull))

RECURSIVE KidSeq(_, _)
\* The non-nil pointers of a Children map in the order of their keys.
KidSeq(m, keys) ==
    IF keys = {} THEN <<>>
    ELSE LET k == FirstKey(keys)
         IN  (IF m[k] = Nil THEN <<>> ELSE <<m[k]>>) \o KidSeq(m, keys \ {k})

\* Read, encoder.Encode(node): the encoder reads one Node, its Value and
\* the whole of its Children map, and goes on into the children by sorted
\* key; with the last Node read the body is written, with status 200.
Encode(p) ==
    LET rec  == handler[p]
        id   == Head(rec.stack)
        m    == heap[id].Children
        kids == IF m = NilMap THEN <<>> ELSE KidSeq(m, DOMAIN m)
        seen == [k \in DOMAIN rec.seen \cup {id} |-> IF k = id THEN heap[id] ELSE rec.seen[k]]
        todo == kids \o Tail(rec.stack)
    IN  /\ ~crashed
        /\ rec.pc = "Encode"
        /\ ~ReadRaces(id)
        /\ UNCHANGED <<hashWriting, crashed, accepted>>
        /\ IF todo = <<>>
           THEN Step(p, Respond(rec, http_StatusOK, TreeOf(seen, rec.cur)), heap, Root)
           ELSE Step(p, [rec EXCEPT !.stack = todo, !.seen = seen], heap, Root)

\* The next step of a goroutine is a map access that finds a writer.
Trips(rec) ==
    CASE rec.pc = "FindNodeLoop" -> ReadRaces(rec.cur)
      [] rec.pc = "Encode" -> ReadRaces(Head(rec.stack))
      [] rec.pc \in {"CreateCheck", "UpdateCheck", "DeleteCheck",
                     "UpdateDelete", "DeleteEntry"} -> ReadRaces(rec.parent)
      [] rec.pc \in {"CreateAttach", "UpdateAssign"} -> Races(rec.parent)
      [] OTHER -> FALSE

\* The runtime finds a map read or written during a write of it by another
\* goroutine: "fatal error: concurrent map writes" (or "... map read and map
\* write"), which ends the process with every request in it.
Fatal(p) ==
    /\ ~crashed
    /\ Trips(handler[p])
    /\ crashed' = TRUE
    /\ UNCHANGED <<Root, heap, hashWriting, handler, accepted, backingRecord>>

\* One step of the handler goroutine p is in.
Run(p) ==
    \/ FindNodeRoot(p)
    \/ FindNodeLoop(p)
    \/ CreateRoot(p)
    \/ CreateRootSet(p)
    \/ CreateCheck(p)
    \/ CreateAttach(p)
    \/ CreateAttachEnd(p)
    \/ UpdateRoot(p)
    \/ UpdateRootSet(p)
    \/ UpdateCheck(p)
    \/ UpdateDelete(p)
    \/ UpdateDeleteEnd(p)
    \/ UpdateAssign(p)
    \/ UpdateAssignEnd(p)
    \/ DeleteRoot(p)
    \/ DeleteCheck(p)
    \/ DeleteEntry(p)
    \/ DeleteEntryEnd(p)
    \/ Encode(p)

\* The bodies sent with a method: Read and Delete ignore theirs.
Bodies(method) == IF method \in {"PUT", "POST"} THEN Payloads ELSE {JsonNull}

\* A request arrives while others may be in flight.
Serve(p) ==
    /\ accepted < MaxRequests
    /\ \E method \in Methods, config \in Paths : \E body \in Bodies(method) :
           Handle(p, method, config, body)

\* A request arrives at a server that is serving none.
ServeAlone ==
    /\ accepted < MaxSerial
    /\ \A q \in Procs : handler[q].pc \in {"idle", "done"}
    /\ \E method \in Methods, config \in Paths : \E body \in Bodies(method) :
           Handle(1, method, config, body)

\* Requests served concurrently, each handler in its own goroutine.
Next == \E p \in Procs : Serve(p) \/ Run(p) \/ Fatal(p)

Spec == Init /\ [][Next]_vars

\* Requests served one after the other.
NextSeq == ServeAlone \/ Run(1)

SpecSeq == Init /\ [][NextSeq]_vars


(* ------------------- the handlers without interruption ---------------- *)

\* The store as the document Read("") would return, JsonNull when empty.
Store == TreeOf(heap, Root)

\* The document a decoded body is stored as (and encoded back to).
Stored(body) == TreeOf(DecodeInto(<<>>, 1, body), 1)

\* The entry of a document's Children under name: JsonNull when the map is
\* nil, lacks the key or holds a nil pointer under it.
Child(doc, name) ==
    IF doc.Children # JsonNull /\ name \in DOMAIN doc.Children
    THEN doc.Children[name] ELSE JsonNull

RECURSIVE DocGet(_, _)
\* The document reached from doc by descending keys; JsonNull when a key is
\* missing on the way (or doc itself is).
DocGet(doc, keys) ==
    IF doc = JsonNull \/ keys = <<>> THEN doc
    ELSE DocGet(Child(doc, Head(keys)), Tail(keys))

RECURSIVE DocWith(_, _, _)
\* doc with the Children of the node under keys replaced by kids.
DocWith(doc, keys, kids) ==
    IF keys = <<>> THEN [doc EXCEPT !.Children = kids]
    ELSE [doc EXCEPT !.Children =
             [k \in DOMAIN doc.Children |->
                 IF k = Head(keys) THEN DocWith(doc.Children[k], Tail(keys), kids)
                 ELSE doc.Children[k]]]

\* The non-empty segments of a config: the keys FindNode descends by.
Keys(config) == SelectSeq(StringsSplit(config), LAMBDA n : n # "")

\* What one handler, run alone on the store doc, answers and leaves behind.
Outcome(doc, method, config, body) ==
    LET split  == PathSplit(config)
        keys   == Keys(split.dir)
        parent == DocGet(doc, keys)
        same(status) == [status |-> status, store |-> doc]
    IN  CASE method = "GET" ->
                 IF DocGet(doc, Keys(config)) = JsonNull
                 THEN same(http_StatusNotFound) ELSE same(http_StatusOK)
          [] method \in {"PUT", "POST"} /\ body = Malformed ->
                 same(http_StatusBadRequest)
          [] method = "PUT" /\ body # Malformed /\ config = <<>> ->
                 IF doc # JsonNull THEN same(http_StatusConflict)
                 ELSE [status |-> http_StatusOK, store |-> Stored(body)]
          [] method = "POST" /\ body # Malformed /\ config = <<>> ->
                 IF doc = JsonNull THEN same(http_StatusNotFound)
                 ELSE [status |-> http_StatusOK, store |-> Stored(body)]
          [] method = "DELETE" /\ config = <<>> ->
                 [status |-> http_StatusOK, store |-> JsonNull]
          [] OTHER ->
                 IF parent = JsonNull THEN same(http_StatusNotFound)
                 ELSE IF method = "PUT"
                 THEN IF Child(parent, split.file) # JsonNull THEN same(http_StatusConflict)
                      ELSE IF parent.Children = JsonNull THEN same(NoStatus)
                      ELSE [status |-> http_StatusOK,
                            store  |-> DocWith(doc, keys,
                                          MapAssign(parent.Children, split.file, Stored(body)))]
                 ELSE IF Child(parent, split.file) = JsonNull THEN same(http_StatusNotFound)
                 ELSE IF method = "POST"
                 THEN [status |-> http_StatusOK,
                       store  |-> DocWith(doc, keys,
                                     MapAssign(parent.Children, split.file, Stored(body)))]
                 ELSE [status |-> http_StatusOK,
                       store  |-> DocWith(doc, keys, MapDelete(parent.Children, split.file))]

\* The handler of goroutine p has returned.
Done(p) == handler[p].pc = "done"

\* Served alone, a handler answers and leaves what Outcome says, and a Read
\* that finds its node returns that node's document.
OutcomeAgrees ==
    \A p \in Procs : Done(p) =>
        LET rec == handler[p]
            o   == Outcome(rec.pre, rec.method, rec.config, rec.body)
        IN  /\ rec.status = o.status
            /\ Store = o.store
            /\ rec.reply = IF rec.method = "GET" /\ rec.status = http_StatusOK
                           THEN DocGet(rec.pre, Keys(rec.config)) ELSE JsonNull


(* -------------------- properties of the specification ------------------- *)

\* The segments of an address: its names, separators apart.
SegmentsOf(config) == SelectSeq(config, LAMBDA t : t # Sep)

RECURSIVE Join(_)
Join(names) ==
    IF Len(names) <= 1 THEN names
    ELSE <<Head(names), Sep>> \o Join(Tail(names))

\* The address without its extra separators.
Canonical(config) == Join(SegmentsOf(config))

\* The address holds a node in the store doc.
HoldsNode(doc, config) == DocGet(doc, SegmentsOf(config)) # JsonNull

\* The parent of a non-root address resolves in the store doc.
ParentResolves(doc, config) ==
    LET segs == SegmentsOf(config)
    IN  segs # <<>> /\ DocGet(doc, SubSeq(segs, 1, Len(segs) - 1)) # JsonNull

\* s is a prefix of t.
IsPrefix(s, t) == Len(s) <= Len(t) /\ SubSeq(t, 1, Len(s)) = s

\* Read(config) served alone on the store as it is now.
ReadNow(config) ==
    LET node == FindNode(heap, Root, config)
    IN  IF node = Nil THEN [status |-> http_StatusNotFound, reply |-> JsonNull]
        ELSE [status |-> http_StatusOK, reply |-> TreeOf(heap, node)]

\* The store main() starts with.
InitStore == TreeOf(MainHeap, 1)

\* C1: Create never overwrites. A Create with a decodable body at an address
\* that already holds a node answers 409 and leaves the store as it was.
C1_CreateNeverOverwrites ==
    \A p \in Procs :
        LET rec == handler[p]
        IN  (Done(p) /\ rec.method = "PUT" /\ rec.body # Malformed
                 /\ HoldsNode(rec.pre, rec.config))
            => (rec.status = http_StatusConflict /\ Store = rec.pre)

\* The requests of goroutines p and q, served one after the other from the
\* initial store, give the statuses both answered and the store as it is.
SerialRun(p, q) ==
    LET first  == Outcome(InitStore, handler[p].method, handler[p].config, handler[p].body)
        second == Outcome(first.store, handler[q].method, handler[q].config, handler[q].body)
    IN  /\ handler[p].status = first.status
        /\ handler[q].status = second.status
        /\ Store = second.store

Mutating == {"PUT", "POST", "DELETE"}

\* C2: mutations are serialized. Two mutations served concurrently answer
\* the statuses, and leave the store, of one of their two sequential orders.
C2_MutationsSerialized ==
    \A p, q \in Procs :
        (p # q /\ accepted = 2 /\ Done(p) /\ Done(q)
             /\ handler[p].method \in Mutating /\ handler[q].method \in Mutating)
        => (SerialRun(p, q) \/ SerialRun(q, p))

\* Goroutines p and q serve Creates of two distinct, absent names under the
\* same parent of the initial store, whose Children map exists.
SiblingCreates(p, q) ==
    LET sp     == PathSplit(handler[p].config)
        sq     == PathSplit(handler[q].config)
        parent == DocGet(InitStore, SegmentsOf(sp.dir))
    IN  /\ handler[p].method = "PUT" /\ handler[q].method = "PUT"
        /\ handler[p].body # Malformed /\ handler[q].body # Malformed
        /\ SegmentsOf(sp.dir) = SegmentsOf(sq.dir)
        /\ sp.file # "" /\ sq.file # "" /\ sp.file # sq.file
        /\ parent # JsonNull /\ parent.Children # JsonNull
        /\ Child(parent, sp.file) = JsonNull /\ Child(parent, sq.file) = JsonNull

\* C3: concurrent Creates of distinct sibling names under one existing
\* parent all answer 200 and all the children are there afterwards; no
\* handler is cut short.
C3_ConcurrentSiblingCreates ==
    \A p, q \in Procs :
        (p # q /\ accepted = 2 /\ SiblingCreates(p, q))
        => /\ ~crashed
           /\ (Done(p) /\ Done(q)) =>
                  /\ handler[p].status = http_StatusOK
                  /\ handler[q].status = http_StatusOK
                  /\ ReadNow(handler[p].config).reply = Stored(handler[p].body)
                  /\ ReadNow(handler[q].config).reply = Stored(handler[q].body)

\* C4: a Read of an address that an Update served at the same time replaces
\* answers 200 with the old subtree or with the new one, never 404.
C4_ReadSnapshot ==
    \A r, u \in Procs :
        (r # u /\ accepted = 2 /\ Done(r)
             /\ handler[r].method = "GET" /\ handler[u].method = "POST"
             /\ handler[u].body # Malformed
             /\ handler[r].config = handler[u].config
             /\ HoldsNode(InitStore, handler[r].config))
        => /\ handler[r].status = http_StatusOK
           /\ handler[r].reply \in {DocGet(InitStore, SegmentsOf(handler[r].config)),
                                    Stored(handler[u].body)}

\* C5: round trip. Once Create(P, V) has answered 200, Read(P) answers 200
\* with the document V is stored as.
C5_RoundTrip ==
    \A p \in Procs :
        LET rec == handler[p]
        IN  (Done(p) /\ rec.method = "PUT" /\ rec.status = http_StatusOK)
            => ReadNow(rec.config) = [status |-> http_StatusOK, reply |-> Stored(rec.body)]

\* C6: whole-subtree replacement. Once Update(P, V2) has answered 200, the
\* subtree at P is V2 and nothing else.
C6_WholeSubtreeReplacement ==
    \A p \in Procs :
        LET rec == handler[p]
        IN  (Done(p) /\ rec.method = "POST" /\ rec.status = http_StatusOK)
            => ReadNow(rec.config) = [status |-> http_StatusOK, reply |-> Stored(rec.body)]

\* C7: Update never creates. An Update with a decodable body at an address
\* that holds no node answers 404 and leaves the store as it was, so the
\* address still holds no node.
C7_UpdateNeverCreates ==
    \A p \in Procs :
        LET rec == handler[p]
        IN  (Done(p) /\ rec.method = "POST" /\ rec.body # Malformed
                 /\ ~HoldsNode(rec.pre, rec.config))
            => /\ rec.status = http_StatusNotFound
               /\ Store = rec.pre
               /\ ~HoldsNode(Store, rec.config)

\* An Update was refused at a non-root address whose parent resolves but
\* lacks the leaf.
C7_Witness ==
    \E p \in Procs :
        LET rec == handler[p]
        IN  /\ Done(p) /\ rec.method = "POST" /\ rec.body # Malformed
            /\ ParentResolves(rec.pre, rec.config)
            /\ ~HoldsNode(rec.pre, rec.config)
            /\ rec.status = http_StatusNotFound

\* C8: Create, Update and Delete at an address with extra separators answer
\* and leave what they do at the address without them.
C8_MutationsTolerateSeparators ==
    \A p \in Procs :
        LET rec == handler[p]
            o   == Outcome(rec.pre, rec.method, Canonical(rec.config), rec.body)
        IN  (Done(p) /\ rec.method \in Mutating)
            => (rec.status = o.status /\ Store = o.store)

\* C9: path normalization. Every path resolves as the path without its
\* extra separators does (so two paths that differ in separators alone
\* resolve alike), and a Read answers what the Read of that path answers.
C9_PathNormalization ==
    /\ \A P \in Paths : FindNode(heap, Root, P) = FindNode(heap, Root, Canonical(P))
    /\ \A p \in Procs :
           (Done(p) /\ handler[p].method = "GET")
           => [status |-> handler[p].status, reply |-> handler[p].reply]
                  = ReadNow(Canonical(handler[p].config))

\* A Read of a path with extra separators found a node below the root.
C9_Witness ==
    \E p \in Procs :
        /\ Done(p) /\ handler[p].method = "GET"
        /\ handler[p].config # Canonical(handler[p].config)
        /\ SegmentsOf(handler[p].config) # <<>>
        /\ handler[p].status = http_StatusOK

\* C10: Delete of a non-root address answers 200 if the address holds a
\* node and 404 if not; after a 200 the address and every address below it
\* read 404, and a second Delete of it answers 404.
C10_DeleteNonRoot ==
    \A p \in Procs :
        LET rec == handler[p]
        IN  (Done(p) /\ rec.method = "DELETE" /\ SegmentsOf(rec.config) # <<>>)
            => /\ rec.status = IF HoldsNode(rec.pre, rec.config)
                               THEN http_StatusOK ELSE http_StatusNotFound
               /\ rec.status = http_StatusOK =>
                      /\ \A Q \in Paths :
                             IsPrefix(SegmentsOf(rec.config), SegmentsOf(Q))
                             => ReadNow(Q).status = http_StatusNotFound
                      /\ Outcome(Store, "DELETE", rec.config, JsonNull).status
                             = http_StatusNotFound

Live == IF Root = Nil THEN {} ELSE Reach(heap, {Root})

\* The entries of the tree's Children maps that point to cell id.
RefsTo(id) ==
    {ck \in Live \X SeqRange(KeyOrder) : MapIndex(heap[ck[1]].Children, ck[2]) = id}

\* Read(config) served alone on the store doc.
ReadIn(doc, config) ==
    LET d == DocGet(doc, SegmentsOf(config))
    IN  [status |-> IF d = JsonNull THEN http_StatusNotFound ELSE http_StatusOK,
         reply  |-> d]

\* Neither address is an ancestor or a descendant of (or the same as) the
\* other.
Unrelated(P, Q) ==
    /\ ~IsPrefix(SegmentsOf(P), SegmentsOf(Q))
    /\ ~IsPrefix(SegmentsOf(Q), SegmentsOf(P))

\* C12: no aliasing. Every Node of the tree has exactly one owner (cs.Root
\* or one entry of one Children map), and a mutation at one address leaves
\* what Read returns at every unrelated address as it was.
C12_NoAliasing ==
    /\ \A id \in Live :
           Cardinality(RefsTo(id)) + (IF id = Root THEN 1 ELSE 0) = 1
    /\ \A p \in Procs :
           LET rec == handler[p]
           IN  (Done(p) /\ rec.method \in Mutating)
               => \A Q \in Paths :
                      Unrelated(rec.config, Q) => ReadNow(Q) = ReadIn(rec.pre, Q)

\* A Create has attached a payload with a descendant while a Node sits at an
\* unrelated address.
C12_Witness ==
    \E p \in Procs :
        /\ Done(p) /\ handler[p].method = "PUT" /\ handler[p].body = TestChild
        /\ handler[p].status = http_StatusOK
        /\ \E Q \in Paths : Unrelated(handler[p].config, Q) /\ HoldsNode(Store, Q)

\* C13: Read never mutates. No step of a Read, from the request to the 200
\* or the 404, changes cs.Root or the Value or the Children map of a Node.
C13_ReadNeverMutates ==
    [][\A p \in Procs :
          (handler'[p] # handler[p] /\ handler'[p].method = "GET")
          => (Root' = Root /\ heap' = heap)]_vars

\* A Read has found its Node below the root and answered 200, after the
\* store had been changed by an earlier request.
C13_Witness ==
    \E p \in Procs :
        /\ Done(p) /\ handler[p].method = "GET"
        /\ SegmentsOf(handler[p].config) # <<>>
        /\ handler[p].pre # InitStore
        /\ handler[p].status = http_StatusOK

\* No handler is in flight.  The program starts no goroutine but the
\* handlers, so nothing of it runs until the next request.
Quiescent == \A q \in Procs : handler[q].pc \in {"idle", "done"}

\* C14: durability convergence. Once a Create, Update or Delete has
\* answered 200 and the server has nothing left to run, the backing record
\* holds the serialization of the store.
C14_DurabilityConvergence ==
    (Quiescent /\ \E p \in Procs : /\ Done(p) /\ handler[p].method \in Mutating
                                   /\ handler[p].status = http_StatusOK)
    => backingRecord = Store

\* C15: Create under any existing parent succeeds. A Create with a
\* decodable body at an address N/n (written without extra separators)
\* whose parent N exists and has no child n answers 200, and the body is
\* then what Read returns there; the handler never ends without a status.
C15_CreateUnderExistingParent ==
    \A p \in Procs :
        LET rec == handler[p]
        IN  (Done(p) /\ rec.method = "PUT" /\ rec.body # Malformed
                 /\ rec.config = Canonical(rec.config)
                 /\ ParentResolves(rec.pre, rec.config)
                 /\ ~HoldsNode(rec.pre, rec.config))
            => /\ rec.status = http_StatusOK
               /\ ReadNow(rec.config) = [status |-> http_StatusOK, reply |-> Stored(rec.body)]

\* The status the decision order gives a Create on the store doc: 400 for
\* an undecodable body; at the root address 409 if a root exists, else 200;
\* elsewhere 404 if the parent does not resolve, 409 if it has the leaf,
\* else 200.
CreateOrder(doc, config, body) ==
    IF body = Malformed THEN http_StatusBadRequest
    ELSE IF SegmentsOf(config) = <<>>
    THEN (IF doc # JsonNull THEN http_StatusConflict ELSE http_StatusOK)
    ELSE IF ~ParentResolves(doc, config) THEN http_StatusNotFound
    ELSE IF HoldsNode(doc, config) THEN http_StatusConflict
    ELSE http_StatusOK

\* C16: the status of a Create follows the decision order (stated here for
\* addresses written without extra separators); a 400 or a 404 leaves the
\* store as it was, and a 200 at the root address installs the body as the
\* root.
C16_CreateDecisionOrder ==
    \A p \in Procs :
        LET rec == handler[p]
        IN  (Done(p) /\ rec.method = "PUT" /\ rec.config = Canonical(rec.config))
            => /\ rec.status = CreateOrder(rec.pre, rec.config, rec.body)
               /\ rec.status \in {http_StatusBadRequest, http_StatusNotFound}
                      => Store = rec.pre
               /\ (rec.status = http_StatusOK /\ rec.config = <<>>)
                      => Store = Stored(rec.body)

\* The keys of the Children map of cell id.
KeysOf(id) == IF heap[id].Children = NilMap THEN {} ELSE DOMAIN heap[id].Children

\* C17: name invariant. No Node of the tree has a child under the empty
\* name. (The bodies sent carry no such key, so only path addressing could
\* attach one; the leaf path.Split returns never holds a separator.)
C17_NameInvariant ==
    \A id \in Live : "" \notin KeysOf(id)

\* C18: no placeholder entries. Every key of the Children map of every Node
\* of the tree maps to a Node, never to nil.
C18_NoPlaceholderEntries ==
    \A id \in Live : \A k \in KeysOf(id) : heap[id].Children[k] # Nil

RECURSIVE Addrs(_)
\* The key sequences that lead from the document doc to a Node of it.
Addrs(doc) ==
    IF doc = JsonNull THEN {}
    ELSE {<<>>} \cup
         (IF doc.Children = JsonNull THEN {}
          ELSE UNION {{<<k>> \o a : a \in Addrs(doc.Children[k])} : k \in DOMAIN doc.Children})

\* C19: frame of a successful mutation. When a Create, Update or Delete at
\* P has answered 200, every address that is neither P nor below P leads to
\* a Node exactly if it did before, and to the same Value; after a Create
\* the newly reachable Nodes are exactly those of the body, attached whole
\* at one place.
C19_MutationFrame ==
    \A p \in Procs :
        LET rec == handler[p]
            old == Addrs(rec.pre)
            new == Addrs(Store)
        IN  (Done(p) /\ rec.method \in Mutating /\ rec.status = http_StatusOK)
            => /\ \A a \in old \cup new :
                      ~IsPrefix(SegmentsOf(rec.config), a)
                      => /\ a \in old /\ a \in new
                         /\ DocGet(Store, a).Value = DocGet(rec.pre, a).Value
               /\ rec.method = "PUT"
                      => \E at \in new \ old :
                             /\ DocGet(Store, at) = Stored(rec.body)
                             /\ new = old \cup {at \o b : b \in Addrs(Stored(rec.body))}

\* A mutation below the root has answered 200 on a store with a Node that
\* is neither above nor below its address.
C19_Witness ==
    \E p \in Procs :
        /\ Done(p) /\ handler[p].method \in Mutating
        /\ handler[p].status = http_StatusOK
        /\ \E a \in Addrs(handler[p].pre) :
               /\ ~IsPrefix(SegmentsOf(handler[p].config), a)
               /\ ~IsPrefix(a, SegmentsOf(handler[p].config))

RECURSIVE Walk(_, _)
\* The reference descent: from cell node through the children named by
\* segs in order, Nil at the first segment that is missing.
Walk(node, segs) ==
    IF segs = <<>> THEN node
    ELSE IF heap[node].Children = NilMap \/ Head(segs) \notin DOMAIN heap[node].Children
              \/ heap[node].Children[Head(segs)] = Nil
    THEN Nil
    ELSE Walk(heap[node].Children[Head(segs)], Tail(segs))

\* The reference resolution of a path: NotFound (Nil) with an absent root,
\* else the descent from the root by the non-empty segments of the path.
Resolve(P) == IF Root = Nil THEN Nil ELSE Walk(Root, SegmentsOf(P))

\* C20: resolution matches the reference algorithm. FindNode returns what
\* the reference resolution returns for every path (nothing with an absent
\* root, the root for a path without non-empty segment), and a Read
\* answers 200 exactly when the path resolves, 404 otherwise.
C20_ResolutionMatchesReference ==
    /\ \A P \in Paths : FindNode(heap, Root, P) = Resolve(P)
    /\ Root = Nil => \A P \in Paths : FindNode(heap, Root, P) = Nil
    /\ Root # Nil => \A P \in Paths : SegmentsOf(P) = <<>> => FindNode(heap, Root, P) = Root
    /\ \A p \in Procs :
           (Done(p) /\ handler[p].method = "GET")
           => /\ handler[p].status \in {http_StatusOK, http_StatusNotFound}
              /\ handler[p].status = http_StatusOK <=> Resolve(handler[p].config) # Nil

\* A Read of the empty path was served with the root absent, and answered
\* 404.
C20_Witness ==
    \E p \in Procs :
        /\ Done(p) /\ handler[p].method = "GET" /\ handler[p].config = <<>>
        /\ Root = Nil
        /\ handler[p].status = http_StatusNotFound

=============================================================================
